---- MODULE Spec2Model ----
(***************************************************************************)
(* Model of locallibs/install.py (relocatable-python): the functions that  *)
(* pip-install extra modules into a relocatable Python framework.          *)
(*                                                                         *)
(* A Python str is a sequence of one-character strings, so that            *)
(* concatenation, os.path.join, "%s" formatting and prefix tests are       *)
(* computed and not assumed.  A Python list of str is a sequence of them.  *)
(* None is a value different from every str and every list.                *)
(***************************************************************************)
EXTENDS Integers, Sequences, FiniteSets, TLC

\* ------------------------------------------------------------------------
\* Bounds of the model
\* ------------------------------------------------------------------------
\* Number of top-level calls of this module one process makes
MaxCalls == 2

\* ------------------------------------------------------------------------
\* String literals of install.py
\* ------------------------------------------------------------------------
None == <<"None">>

S_Versions == <<"V", "e", "r", "s", "i", "o", "n", "s">>
S_bin_python == <<"b", "i", "n", "/", "p", "y", "t", "h", "o", "n">>
S_include_python == <<"i", "n", "c", "l", "u", "d", "e", "/", "p", "y", "t", "h", "o", "n">>
S_lib_python == <<"l", "i", "b", "/", "p", "y", "t", "h", "o", "n">>
S_site_packages == <<"/", "s", "i", "t", "e", "-", "p", "a", "c", "k", "a", "g", "e", "s">>
S_s == <<"-", "s">>
S_m == <<"-", "m">>
S_ensurepip == <<"e", "n", "s", "u", "r", "e", "p", "i", "p">>
S_pip == <<"p", "i", "p">>
S_install == <<"i", "n", "s", "t", "a", "l", "l">>
S_upgrade == <<"-", "-", "u", "p", "g", "r", "a", "d", "e">>
S_r == <<"-", "r">>
S_wheel == <<"w", "h", "e", "e", "l">>
S_platform == <<"-", "-", "p", "l", "a", "t", "f", "o", "r", "m">>
S_target_fmt == <<"-", "-", "t", "a", "r", "g", "e", "t", "=", "%", "s">>
S_no_binary == <<"-", "-", "n", "o", "-", "b", "i", "n", "a", "r", "y">>
S_only_binary == <<"-", "-", "o", "n", "l", "y", "-", "b", "i", "n", "a", "r", "y">>
S_eq == <<"=">>
S_I_fmt == <<"-", "I", "%", "s">>
S_guard_fmt == <<"~", "/", "L", "i", "b", "r", "a", "r", "y", "/", "P", "y", "t", "h", "o", "n", "/", "%", "s", "/", "l", "i", "b", "/", "p", "y", "t", "h", "o", "n", "/", "s", "i", "t", "e", "-", "p", "a", "c", "k", "a", "g", "e", "s">>
S_default_version == <<"2", ".", "7">>

\* Lines the functions print: a format string and its argument
MSG_no_python == "No python at %s"
MSG_ensuring == "Ensuring pip is installed..."
MSG_installing == "Installing %s..."
MSG_upgrading == "Upgrading pip installation..."
MSG_installing_from == "Installing modules from %s..."
MSG_skipping == "Skipping all requirements, packages, etc due to without-pip specified"
MSG_blank == ""

\* ------------------------------------------------------------------------
\* The inputs the callers pass
\* ------------------------------------------------------------------------
FrameworkPaths == { <<"/", "R">>, <<"/", "R", "/">>, <<"f", "w">> }
Versions == { S_default_version, <<"3", ".", "9">> }
RequirementsFiles == { None, <<"r", "e", "q", ".", "t", "x", "t">> }
PkgNames == { S_wheel, <<"s", "i", "x">> }
PipPlatforms == { None, <<>>, << <<"a", "n", "y">> >>,
                  << <<"w", "i", "n", "3", "2">>, <<"a", "n", "y">> >> }
NoBinaries == { None, << <<"s", "i", "x">> >>,
                << <<"x", "a", "t", "t", "r">>, <<"s", "i", "x">> >> }
OnlyBinaries == { None, << <<":", "a", "l", "l", ":">> >> }

\* The process's working directory and the environment it starts with
Cwd == <<"/", "w">>
Home == <<"/", "h">>
InitialCppflags == { None, <<"-", "O", "2">> }
ExitCodes == { 0, 1 }

\* ------------------------------------------------------------------------
\* Python built-ins and library functions install.py calls
\* ------------------------------------------------------------------------
\* truth value of an argument in "if x:" (None, "" and [] are false)
Truthy(x) == x # None /\ x # <<>>

StartsWith(s, prefix) ==
    /\ Len(s) >= Len(prefix)
    /\ SubSeq(s, 1, Len(prefix)) = prefix

EndsWith(s, suffix) ==
    /\ Len(s) >= Len(suffix)
    /\ SubSeq(s, Len(s) - Len(suffix) + 1, Len(s)) = suffix

\* one step of posixpath.join: path joined with the component b
join2(path, b) ==
    IF StartsWith(b, <<"/">>) THEN b
    ELSE IF path = <<>> \/ EndsWith(path, <<"/">>) THEN path \o b
    ELSE path \o <<"/">> \o b

RECURSIVE os_path_join(_)
\* os.path.join(parts[1], parts[2], ...)
os_path_join(parts) ==
    IF Len(parts) = 1 THEN parts[1]
    ELSE join2(os_path_join(SubSeq(parts, 1, Len(parts) - 1)), parts[Len(parts)])

RECURSIVE split_slash(_)
\* path.split('/')
split_slash(s) ==
    IF \A i \in 1..Len(s) : s[i] # "/" THEN << s >>
    ELSE LET k == CHOOSE i \in 1..Len(s) :
                      s[i] = "/" /\ \A j \in 1..(i - 1) : s[j] # "/"
         IN << SubSeq(s, 1, k - 1) >> \o split_slash(SubSeq(s, k + 1, Len(s)))

RECURSIVE join_slash(_)
\* '/'.join(comps)
join_slash(comps) ==
    IF comps = <<>> THEN <<>>
    ELSE IF Len(comps) = 1 THEN comps[1]
    ELSE comps[1] \o <<"/">> \o join_slash(Tail(comps))

RECURSIVE norm_comps(_, _, _)
\* the loop of posixpath.normpath over the components still to read
norm_comps(comps, new_comps, initial_slashes) ==
    IF comps = <<>> THEN new_comps
    ELSE LET comp == Head(comps)
             rest == Tail(comps)
         IN IF comp = <<>> \/ comp = <<".">>
            THEN norm_comps(rest, new_comps, initial_slashes)
            ELSE IF \/ comp # <<".", ".">>
                    \/ (initial_slashes = 0 /\ new_comps = <<>>)
                    \/ (new_comps # <<>> /\ new_comps[Len(new_comps)] = <<".", ".">>)
            THEN norm_comps(rest, Append(new_comps, comp), initial_slashes)
            ELSE IF new_comps # <<>>
            THEN norm_comps(rest, SubSeq(new_comps, 1, Len(new_comps) - 1), initial_slashes)
            ELSE norm_comps(rest, new_comps, initial_slashes)

\* posixpath.normpath
normpath(path) ==
    IF path = <<>> THEN <<".">>
    ELSE LET initial_slashes ==
                 IF ~StartsWith(path, <<"/">>) THEN 0
                 ELSE IF StartsWith(path, <<"/", "/">>) /\ ~StartsWith(path, <<"/", "/", "/">>)
                 THEN 2 ELSE 1
             comps == norm_comps(split_slash(path), <<>>, initial_slashes)
             joined == join_slash(comps)
             result == IF initial_slashes = 2 THEN <<"/", "/">> \o joined
                       ELSE IF initial_slashes = 1 THEN <<"/">> \o joined
                       ELSE joined
         IN IF result = <<>> THEN <<".">> ELSE result

\* os.path.abspath, in the working directory Cwd
os_path_abspath(path) ==
    normpath(IF StartsWith(path, <<"/">>) THEN path ELSE os_path_join(<< Cwd, path >>))

RECURSIVE rstrip_slash(_)
\* userhome.rstrip('/')
rstrip_slash(s) ==
    IF s # <<>> /\ s[Len(s)] = "/" THEN rstrip_slash(SubSeq(s, 1, Len(s) - 1)) ELSE s

\* os.path.expanduser for a path that starts with "~/", with HOME set
os_path_expanduser(path, env) ==
    IF ~StartsWith(path, <<"~">>) THEN path
    ELSE LET expanded == rstrip_slash(env["HOME"]) \o Tail(path)
         IN IF expanded = <<>> THEN <<"/">> ELSE expanded

\* fmt % arg for a format with one "%s"
format_s(fmt, arg) ==
    IF \E i \in 1..(Len(fmt) - 1) : fmt[i] = "%" /\ fmt[i + 1] = "s"
    THEN LET k == CHOOSE i \in 1..(Len(fmt) - 1) :
                      /\ fmt[i] = "%" /\ fmt[i + 1] = "s"
                      /\ \A j \in 1..(i - 1) : ~(fmt[j] = "%" /\ fmt[j + 1] = "s")
         IN SubSeq(fmt, 1, k - 1) \o arg \o SubSeq(fmt, k + 2, Len(fmt))
    ELSE fmt

\* ------------------------------------------------------------------------
\* The paths install.py derives from (framework_path, version)
\* ------------------------------------------------------------------------
python_path(framework_path, version) ==
    os_path_join(<< framework_path, S_Versions, version, S_bin_python \o version >>)

headers_path(framework_path, version) ==
    os_path_abspath(
        os_path_join(<< framework_path, S_Versions, version, S_include_python \o version >>))

site_packages_path(framework_path, version) ==
    os_path_join(<< framework_path, S_Versions, version,
                    S_lib_python \o version \o S_site_packages >>)

python_guard_path(version, env) ==
    format_s(os_path_expanduser(S_guard_fmt, env), version)

\* ------------------------------------------------------------------------
\* The argument vectors
\* ------------------------------------------------------------------------
\* multi_value_option(option, values, separator=None)
multi_value_option(option, values, separator) ==
    IF Truthy(separator)
    THEN [ i \in 1..Len(values) |-> option \o separator \o values[i] ]
    ELSE [ i \in 1..(2 * Len(values)) |->
             IF i % 2 = 1 THEN option ELSE values[i \div 2] ]

ensure_pip_cmd(python) == << python, S_s, S_m, S_ensurepip >>

install_cmd(python, pkgname) == << python, S_s, S_m, S_pip, S_install, pkgname >>

upgrade_pip_cmd(python) == << python, S_s, S_m, S_pip, S_install, S_upgrade, S_pip >>

\* variant: the "-r" option is left out of the base command
requirements_base_cmd_noflag(python, requirements_file) ==
    << python, S_s, S_m, S_pip, S_install, requirements_file >>

requirements_base_cmd(python, requirements_file) ==
    << python, S_s, S_m, S_pip, S_install, S_r, requirements_file >>

\* variant: the platforms are passed in the combined "--platform=<value>" format
platform_args_combined(pip_platform, site_packages) ==
    IF Truthy(pip_platform)
    THEN multi_value_option(S_platform, pip_platform, S_eq)
         \o << format_s(S_target_fmt, site_packages) >>
    ELSE <<>>

\* what "if pip_platform:" extends cmd with
platform_args(pip_platform, site_packages) ==
    IF Truthy(pip_platform)
    THEN multi_value_option(S_platform, pip_platform, None)
         \o << format_s(S_target_fmt, site_packages) >>
    ELSE <<>>

\* variant: "if only_binary:" in place of "elif only_binary:"
binary_args_both(no_binary, only_binary) ==
    (IF Truthy(no_binary)
     THEN multi_value_option(S_no_binary, no_binary, S_eq) ELSE <<>>)
    \o (IF Truthy(only_binary)
        THEN multi_value_option(S_only_binary, only_binary, S_eq) ELSE <<>>)

\* what "if no_binary: ... elif only_binary: ..." extends cmd with
binary_args(no_binary, only_binary) ==
    IF Truthy(no_binary)
    THEN multi_value_option(S_no_binary, no_binary, S_eq)
    ELSE IF Truthy(only_binary)
    THEN multi_value_option(S_only_binary, only_binary, S_eq)
    ELSE <<>>

\* variant: "elif no_binary:", one chain with the platform list
requirements_cmd_chained(requirements_file, framework_path, version, pip_platform, no_binary, only_binary) ==
    requirements_base_cmd(python_path(framework_path, version), requirements_file)
    \o (IF Truthy(pip_platform)
        THEN platform_args(pip_platform, site_packages_path(framework_path, version))
        ELSE binary_args(no_binary, only_binary))

\* cmd of install_requirements at the point of subprocess.check_call
requirements_cmd(requirements_file, framework_path, version, pip_platform, no_binary, only_binary) ==
    requirements_base_cmd(python_path(framework_path, version), requirements_file)
    \o platform_args(pip_platform, site_packages_path(framework_path, version))
    \o binary_args(no_binary, only_binary)

\* variant: subprocess.call in place of subprocess.check_call
Raises_never(returncode) == FALSE

\* subprocess.check_call raises CalledProcessError for this exit status
Raises(returncode) == returncode # 0

\* ------------------------------------------------------------------------
\* State
\* ------------------------------------------------------------------------
VARIABLES
    fs,        \* the paths that exist on disk
    environ,   \* os.environ of this process: variable name -> value or None
    frame,     \* the arguments of the top-level call in progress
    pc,        \* "idle", the function about to run, "wait", "returned", "raised"
    cur,       \* the function blocked in subprocess.check_call while pc = "wait"
    calls,     \* subprocesses launched by the top-level call, in launch order:
               \* launching function, argument vector, environment, whether
               \* it exited and how
    stdout,    \* lines printed to sys.stdout by the top-level call
    stderr,    \* lines printed to sys.stderr by the top-level call
    envAtCall, \* os.environ when the top-level call was made
    ncalls     \* top-level calls made so far

vars == << fs, environ, frame, pc, cur, calls, stdout, stderr, envAtCall, ncalls >>

\* variant: the existence test is dropped
Exists_always(path) == TRUE

\* os.path.exists
Exists(path) == path \in fs

\* the paths whose existence install.py tests, for the arguments above
FsUniverse ==
    { python_path(<<"/", "R">>, <<"3", ".", "9">>),
      python_path(<<"f", "w">>, S_default_version),
      format_s(os_path_expanduser(S_guard_fmt, [ v \in {"HOME"} |-> Home ]),
               <<"3", ".", "9">>) }

NoFrame ==
    [ entry |-> "none", framework_path |-> None, version |-> None,
      requirements_file |-> None, upgrade_pip |-> FALSE, without_pip |-> FALSE,
      pip_platform |-> None, no_binary |-> None, only_binary |-> None,
      pkgname |-> None ]

Init ==
    /\ fs \in SUBSET FsUniverse
    /\ environ \in { [ v \in {"HOME", "CPPFLAGS"} |-> IF v = "HOME" THEN Home ELSE c ] :
                       c \in InitialCppflags }
    /\ frame = NoFrame
    /\ pc = "idle"
    /\ cur = "none"
    /\ calls = <<>>
    /\ stdout = <<>>
    /\ stderr = <<>>
    /\ envAtCall = environ
    /\ ncalls = 0

\* the process is free to make a top-level call
CanCall == pc = "idle" /\ ncalls < MaxCalls

\* a top-level call starts: nothing launched or printed yet
Enter(f, first_pc, out) ==
    /\ frame' = f
    /\ pc' = first_pc
    /\ cur' = "none"
    /\ calls' = <<>>
    /\ stdout' = out
    /\ stderr' = <<>>
    /\ envAtCall' = environ
    /\ ncalls' = ncalls + 1
    /\ UNCHANGED << fs, environ >>

\* the warning install_extras prints when python_guard_path exists
GuardWarning(guard_path) ==
    << << "*********************************************************" >>,
       << "*** Python user files exist that conflict with the    ***" >>,
       << "*** version of relocatable python you are trying to   ***" >>,
       << "*** create. This can result in extra python modules   ***" >>,
       << "*** not being installed properly or out of date.      ***" >>,
       << "*** Please remove these files or create this package  ***" >>,
       << "*** under a fresh user account.                       ***" >>,
       << "*** The files are located at:                         ***" >>,
       << "*** %s ***", guard_path >>,
       << "*********************************************************" >>,
       << MSG_blank >> >>

\* variant: "if without_pip:"
RunsPip_inverted(without_pip) == without_pip

\* "if not without_pip:" of install_extras
RunsPip(without_pip) == ~without_pip

\* variant: "elif requirements_file:" after the upgrade
Continuation_elif(fn, f) ==
    IF f.entry # "install_extras" THEN "returned"
    ELSE IF fn = "ensure_pip" THEN "install"
    ELSE IF fn = "install"
         THEN IF f.upgrade_pip THEN "upgrade_pip_install"
              ELSE IF Truthy(f.requirements_file) THEN "install_requirements"
              ELSE "returned"
    ELSE "returned"

\* where control goes when function fn of the frame f returns normally
Continuation(fn, f) ==
    IF f.entry # "install_extras" THEN "returned"
    ELSE IF fn = "ensure_pip" THEN "install"
    ELSE IF fn = "install"
         THEN IF f.upgrade_pip THEN "upgrade_pip_install"
              ELSE IF Truthy(f.requirements_file) THEN "install_requirements"
              ELSE "returned"
    ELSE IF fn = "upgrade_pip_install"
         THEN IF Truthy(f.requirements_file) THEN "install_requirements"
              ELSE "returned"
    ELSE "returned"

\* variant: CPPFLAGS is set before the existence test
environ_of_requirements_early(env, framework_path, version) ==
    [ env EXCEPT !["CPPFLAGS"] =
          format_s(S_I_fmt, headers_path(framework_path, version)) ]

\* os.environ when install_requirements has run up to its check_call
environ_of_requirements(env, framework_path, version) ==
    IF ~Exists(python_path(framework_path, version)) THEN env
    ELSE [ env EXCEPT !["CPPFLAGS"] =
               format_s(S_I_fmt, headers_path(framework_path, version)) ]

\* ------------------------------------------------------------------------
\* Top-level calls
\* ------------------------------------------------------------------------
\* install_extras(...) up to its first call of another function
install_extras ==
    /\ CanCall
    /\ \E fp \in FrameworkPaths, v \in Versions, rf \in RequirementsFiles,
          up \in BOOLEAN, wo \in BOOLEAN, pl \in PipPlatforms,
          nb \in NoBinaries, ob \in OnlyBinaries :
         LET f == [ entry |-> "install_extras", framework_path |-> fp, version |-> v,
                    requirements_file |-> rf, upgrade_pip |-> up, without_pip |-> wo,
                    pip_platform |-> pl, no_binary |-> nb, only_binary |-> ob,
                    pkgname |-> None ]
             guard == python_guard_path(v, environ)
             warned == << << MSG_blank >> >>
                       \o (IF Exists(guard) THEN GuardWarning(guard) ELSE <<>>)
         IN IF RunsPip(wo)
            THEN Enter(f, "ensure_pip", warned)
            ELSE Enter(f, "returned", Append(warned, << MSG_skipping >>))

\* ensure_pip(framework_path, version) called by the process itself
call_ensure_pip ==
    /\ CanCall
    /\ \E fp \in FrameworkPaths, v \in Versions :
         Enter([ NoFrame EXCEPT !.entry = "ensure_pip", !.framework_path = fp,
                                !.version = v ], "ensure_pip", <<>>)

\* install(pkgname, framework_path, version) called by the process itself
call_install ==
    /\ CanCall
    /\ \E pkg \in PkgNames, fp \in FrameworkPaths, v \in Versions :
         Enter([ NoFrame EXCEPT !.entry = "install", !.framework_path = fp,
                                !.version = v, !.pkgname = pkg ], "install", <<>>)

\* upgrade_pip_install(framework_path, version) called by the process itself
call_upgrade_pip_install ==
    /\ CanCall
    /\ \E fp \in FrameworkPaths, v \in Versions :
         Enter([ NoFrame EXCEPT !.entry = "upgrade_pip_install", !.framework_path = fp,
                                !.version = v ], "upgrade_pip_install", <<>>)

\* install_requirements(...) called by the process itself
call_install_requirements ==
    /\ CanCall
    /\ \E rf \in RequirementsFiles \ {None}, fp \in FrameworkPaths, v \in Versions,
          pl \in PipPlatforms, nb \in NoBinaries, ob \in OnlyBinaries :
         Enter([ NoFrame EXCEPT !.entry = "install_requirements", !.framework_path = fp,
                                !.version = v, !.requirements_file = rf,
                                !.pip_platform = pl, !.no_binary = nb,
                                !.only_binary = ob ], "install_requirements", <<>>)

\* ------------------------------------------------------------------------
\* The function bodies
\* ------------------------------------------------------------------------
\* subprocess.check_call(cmd, env) starts the child and blocks
Launch(fn, cmd, env) ==
    /\ calls' = Append(calls, [ fn |-> fn, cmd |-> cmd, env |-> env,
                                exited |-> FALSE, returncode |-> 0 ])
    /\ pc' = "wait"
    /\ cur' = fn

\* the function prints "No python at ..." and returns
NoPython(fn, python) ==
    /\ stderr' = Append(stderr, << MSG_no_python, python >>)
    /\ pc' = Continuation(fn, frame)
    /\ UNCHANGED << calls, cur, stdout >>

ensure_pip ==
    /\ pc = "ensure_pip"
    /\ LET python == python_path(frame.framework_path, frame.version)
       IN IF ~Exists(python)
          THEN NoPython("ensure_pip", python)
          ELSE /\ stdout' = Append(stdout, << MSG_ensuring >>)
               /\ Launch("ensure_pip", ensure_pip_cmd(python), environ)
               /\ UNCHANGED stderr
    /\ UNCHANGED << fs, environ, frame, envAtCall, ncalls >>

install ==
    /\ pc = "install"
    /\ LET python == python_path(frame.framework_path, frame.version)
           pkgname == IF frame.entry = "install_extras" THEN S_wheel ELSE frame.pkgname
       IN IF ~Exists(python)
          THEN NoPython("install", python)
          ELSE /\ stdout' = Append(stdout, << MSG_installing, pkgname >>)
               /\ Launch("install", install_cmd(python, pkgname), environ)
               /\ UNCHANGED stderr
    /\ UNCHANGED << fs, environ, frame, envAtCall, ncalls >>

upgrade_pip_install ==
    /\ pc = "upgrade_pip_install"
    /\ LET python == python_path(frame.framework_path, frame.version)
       IN IF ~Exists(python)
          THEN NoPython("upgrade_pip_install", python)
          ELSE /\ stdout' = Append(stdout, << MSG_upgrading >>)
               /\ Launch("upgrade_pip_install", upgrade_pip_cmd(python), environ)
               /\ UNCHANGED stderr
    /\ UNCHANGED << fs, environ, frame, envAtCall, ncalls >>

\* install_requirements; inside install_extras the caller's print() precedes it
install_requirements ==
    /\ pc = "install_requirements"
    /\ LET python == python_path(frame.framework_path, frame.version)
           out == IF frame.entry = "install_extras"
                  THEN Append(stdout, << MSG_blank >>) ELSE stdout
       IN /\ environ' = environ_of_requirements(environ, frame.framework_path,
                                                frame.version)
          /\ IF ~Exists(python)
             THEN /\ stderr' = Append(stderr, << MSG_no_python, python >>)
                  /\ stdout' = out
                  /\ pc' = Continuation("install_requirements", frame)
                  /\ UNCHANGED << calls, cur >>
             ELSE /\ stdout' = Append(out, << MSG_installing_from,
                                              frame.requirements_file >>)
                  /\ Launch("install_requirements",
                            requirements_cmd(frame.requirements_file,
                                             frame.framework_path, frame.version,
                                             frame.pip_platform, frame.no_binary,
                                             frame.only_binary),
                            environ')
                  /\ UNCHANGED stderr
    /\ UNCHANGED << fs, frame, envAtCall, ncalls >>

\* the child exits: check_call returns, or raises CalledProcessError
check_call_exit ==
    /\ pc = "wait"
    /\ \E returncode \in ExitCodes :
         /\ calls' = [ calls EXCEPT ![Len(calls)].exited = TRUE,
                                    ![Len(calls)].returncode = returncode ]
         /\ pc' = IF Raises(returncode) THEN "raised" ELSE Continuation(cur, frame)
    /\ cur' = "none"
    /\ UNCHANGED << fs, environ, frame, stdout, stderr, envAtCall, ncalls >>

\* the top-level call has returned and its caller goes on
resume ==
    /\ pc = "returned"
    /\ pc' = "idle"
    /\ frame' = NoFrame
    /\ calls' = <<>>
    /\ stdout' = <<>>
    /\ stderr' = <<>>
    /\ envAtCall' = environ
    /\ UNCHANGED << fs, environ, cur, ncalls >>

Next ==
    \/ install_extras
    \/ call_ensure_pip
    \/ call_install
    \/ call_upgrade_pip_install
    \/ call_install_requirements
    \/ ensure_pip
    \/ install
    \/ upgrade_pip_install
    \/ install_requirements
    \/ check_call_exit
    \/ resume

Spec == Init /\ [][Next]_vars

\* ------------------------------------------------------------------------
\* Properties
\* ------------------------------------------------------------------------
\* The texts the properties expect, written out
T_Versions == <<"/", "V", "e", "r", "s", "i", "o", "n", "s", "/">>
T_bin_python == <<"/", "b", "i", "n", "/", "p", "y", "t", "h", "o", "n">>
T_lib_python == <<"/", "l", "i", "b", "/", "p", "y", "t", "h", "o", "n">>
T_site_packages == <<"/", "s", "i", "t", "e", "-", "p", "a", "c", "k", "a", "g", "e", "s">>
T_no_binary_eq == <<"-", "-", "n", "o", "-", "b", "i", "n", "a", "r", "y", "=">>
T_only_binary_eq == <<"-", "-", "o", "n", "l", "y", "-", "b", "i", "n", "a", "r", "y", "=">>
T_target_eq == <<"-", "-", "t", "a", "r", "g", "e", "t", "=">>
T_platform == <<"-", "-", "p", "l", "a", "t", "f", "o", "r", "m">>
T_s == <<"-", "s">>
T_m == <<"-", "m">>
T_r == <<"-", "r">>
T_pip == <<"p", "i", "p">>
T_install == <<"i", "n", "s", "t", "a", "l", "l">>
T_wheel == <<"w", "h", "e", "e", "l">>
T_upgrade == <<"-", "-", "u", "p", "g", "r", "a", "d", "e">>
T_ensurepip == <<"e", "n", "s", "u", "r", "e", "p", "i", "p">>

\* the root as a directory name: without the separator it may end with
RootDir(root) ==
    IF root # <<>> /\ root[Len(root)] = "/" THEN SubSeq(root, 1, Len(root) - 1) ELSE root

\* <root>/Versions/<version>/bin/python<version>
TemplatePython(root, version) ==
    RootDir(root) \o T_Versions \o version \o T_bin_python \o version

\* <root>/Versions/<version>/lib/python<version>/site-packages
TemplateSitePackages(root, version) ==
    RootDir(root) \o T_Versions \o version \o T_lib_python \o version \o T_site_packages

FramePython == TemplatePython(frame.framework_path, frame.version)

PythonMissing == frame.entry # "none" /\ FramePython \notin fs
PythonPresent == frame.entry # "none" /\ FramePython \in fs

InExtras == frame.entry = "install_extras"

\* the 'pip install -r <manifest>' call has been launched
ManifestLaunched ==
    /\ calls # <<>>
    /\ calls[Len(calls)].fn = "install_requirements"

\* its argument vector
ManifestCmd == calls[Len(calls)].cmd

IsPrefix(a, b) == Len(a) <= Len(b) /\ SubSeq(b, 1, Len(a)) = a

\* the first seven arguments of every launched command
Heads ==
    [ i \in 1..Len(calls) |->
        SubSeq(calls[i].cmd, 1, IF Len(calls[i].cmd) < 7 THEN Len(calls[i].cmd) ELSE 7) ]

ExpectedSequence ==
    << << FramePython, T_s, T_m, T_ensurepip >>,
       << FramePython, T_s, T_m, T_pip, T_install, T_wheel >> >>
    \o (IF frame.upgrade_pip
        THEN << << FramePython, T_s, T_m, T_pip, T_install, T_upgrade, T_pip >> >>
        ELSE <<>>)
    \o (IF frame.requirements_file # None
        THEN << << FramePython, T_s, T_m, T_pip, T_install, T_r,
                   frame.requirements_file >> >>
        ELSE <<>>)

\* C1: in install_extras with without_pip false and the executable present,
\* the subprocesses launched so far are always an initial part of: ensurepip,
\* pip install wheel, pip install --upgrade pip iff upgrade_pip, pip install -r
\* iff a requirements file was given; each is launched only after all earlier
\* ones exited with status 0; and when install_extras has returned the whole
\* sequence, and nothing else, has been launched.
C1_OrderedSequence ==
    (InExtras /\ ~frame.without_pip /\ PythonPresent) =>
        /\ IsPrefix(Heads, ExpectedSequence)
        /\ \A i \in 1..(Len(calls) - 1) : calls[i].exited /\ calls[i].returncode = 0
        /\ (pc = "wait") = (calls # <<>> /\ ~calls[Len(calls)].exited)
        /\ pc = "returned" =>
              /\ Heads = ExpectedSequence
              /\ \A i \in 1..Len(calls) : calls[i].exited /\ calls[i].returncode = 0

C1_Witness ==
    /\ InExtras /\ ~frame.without_pip /\ PythonPresent
    /\ frame.upgrade_pip /\ frame.requirements_file # None
    /\ pc = "returned" /\ Len(calls) = 4

\* C2: a subprocess that exited with a non-zero status is the last one
\* launched, its error has propagated (the call has raised), and its command
\* was launched once only.
C2_FailureAborts ==
    \A i \in 1..Len(calls) :
        (calls[i].exited /\ calls[i].returncode # 0) =>
            /\ i = Len(calls)
            /\ pc = "raised"
            /\ \A j \in 1..Len(calls) : j # i => calls[j].cmd # calls[i].cmd

C2_Witness ==
    /\ InExtras /\ frame.upgrade_pip /\ frame.requirements_file # None
    /\ pc = "raised" /\ Len(calls) = 2
    /\ calls[2].exited /\ calls[2].returncode # 0

\* C3: while the executable <root>/Versions/<version>/bin/python<version> of
\* the call in progress does not exist, no subprocess has been launched, none
\* is awaited and no error has been raised; every function of the call
\* printed its diagnostic and returned.
C3_MissingExecutable ==
    PythonMissing =>
        /\ calls = <<>>
        /\ pc \notin {"wait", "raised"}
        /\ \A i \in 1..Len(stderr) : stderr[i] = << MSG_no_python, FramePython >>
        /\ (pc = "returned" /\ ~InExtras) => Len(stderr) = 1

C3_Witness ==
    /\ PythonMissing /\ InExtras /\ ~frame.without_pip
    /\ frame.upgrade_pip /\ frame.requirements_file # None
    /\ pc = "returned" /\ Len(stderr) = 4 /\ calls = <<>>

\* C4: install_extras with without_pip true launches no subprocess and prints
\* the skip diagnostic exactly once, whatever the other arguments are.
C4_WithoutPip ==
    (InExtras /\ frame.without_pip) =>
        /\ calls = <<>>
        /\ pc = "returned"
        /\ Cardinality({ i \in 1..Len(stdout) : stdout[i] = << MSG_skipping >> }) = 1

C4_Witness ==
    /\ InExtras /\ frame.without_pip /\ PythonPresent
    /\ frame.upgrade_pip /\ frame.requirements_file # None
    /\ Truthy(frame.pip_platform) /\ Truthy(frame.no_binary)
    /\ pc = "returned"

\* C5: after install_requirements has returned or raised, os.environ of the
\* process is what it was before the call.
C5_EnvironmentNotLeaked ==
    (frame.entry \in {"install_extras", "install_requirements"}
     /\ pc \in {"returned", "raised"}) => environ = envAtCall

HasPrefixed(cmd, prefix) == \E i \in 1..Len(cmd) : StartsWith(cmd[i], prefix)

\* C6 as stated: with a non-empty platform list the argument vector has no
\* '--no-binary=' and no '--only-binary=' flag.
C6_PlatformExcludesBinary ==
    (ManifestLaunched /\ Truthy(frame.pip_platform)) =>
        /\ ~HasPrefixed(ManifestCmd, T_no_binary_eq)
        /\ ~HasPrefixed(ManifestCmd, T_only_binary_eq)

\* C6 amended: the platform list does not take part in the choice between
\* no-binary and only-binary.  The vector has '--no-binary=' flags exactly
\* when a non-empty no-binary list is given, and '--only-binary=' flags
\* exactly when no no-binary list but a non-empty only-binary list is given,
\* with or without a platform list; with one, they follow '--target='.
C6_BinaryIndependentOfPlatform ==
    ManifestLaunched =>
        /\ HasPrefixed(ManifestCmd, T_no_binary_eq) = Truthy(frame.no_binary)
        /\ HasPrefixed(ManifestCmd, T_only_binary_eq)
               = (~Truthy(frame.no_binary) /\ Truthy(frame.only_binary))
        /\ Truthy(frame.pip_platform) =>
              \A i, j \in 1..Len(ManifestCmd) :
                  (/\ StartsWith(ManifestCmd[i], T_target_eq)
                   /\ \/ StartsWith(ManifestCmd[j], T_no_binary_eq)
                      \/ StartsWith(ManifestCmd[j], T_only_binary_eq)) => i < j

C6_Witness ==
    /\ ManifestLaunched
    /\ Truthy(frame.pip_platform) /\ Truthy(frame.no_binary)
    /\ HasPrefixed(ManifestCmd, T_no_binary_eq)

Prefixed(cmd, prefix) == SelectSeq(cmd, LAMBDA a : StartsWith(a, prefix))

\* C7: with a non-empty no-binary list and a non-empty only-binary list the
\* vector has one '--no-binary=<name>' per no-binary name, in input order,
\* and nothing that starts with '--only-binary='; with an only-binary list
\* alone it has one '--only-binary=<name>' per name.
C7_NoBinaryPrecedence ==
    ManifestLaunched =>
        /\ (Truthy(frame.no_binary) /\ Truthy(frame.only_binary)) =>
              /\ Prefixed(ManifestCmd, T_no_binary_eq)
                   = [ i \in 1..Len(frame.no_binary) |->
                         T_no_binary_eq \o frame.no_binary[i] ]
              /\ Prefixed(ManifestCmd, T_only_binary_eq) = <<>>
        /\ (~Truthy(frame.no_binary) /\ Truthy(frame.only_binary)) =>
              Prefixed(ManifestCmd, T_only_binary_eq)
                = [ i \in 1..Len(frame.only_binary) |->
                      T_only_binary_eq \o frame.only_binary[i] ]

C7_Witness ==
    /\ ManifestLaunched
    /\ Truthy(frame.no_binary) /\ Len(frame.no_binary) = 2
    /\ Truthy(frame.only_binary)

\* C8: with a non-empty platform list [p1..pn] the vector has, right after
\* the seven base arguments, '--platform' p1 ... '--platform' pn and then
\* '--target=<root>/Versions/<version>/lib/python<version>/site-packages',
\* which occurs once; without one, neither '--platform' nor '--target='.
C8_PlatformArguments ==
    ManifestLaunched =>
        IF Truthy(frame.pip_platform)
        THEN LET n == Len(frame.pip_platform)
             IN /\ Len(ManifestCmd) >= 8 + 2 * n
                /\ \A k \in 1..n :
                      /\ ManifestCmd[7 + 2 * k - 1] = T_platform
                      /\ ManifestCmd[7 + 2 * k] = frame.pip_platform[k]
                /\ ManifestCmd[8 + 2 * n]
                     = T_target_eq \o TemplateSitePackages(frame.framework_path,
                                                           frame.version)
                /\ Len(Prefixed(ManifestCmd, T_target_eq)) = 1
                /\ Len(SelectSeq(ManifestCmd, LAMBDA a : a = T_platform)) = n
        ELSE /\ \A i \in 1..Len(ManifestCmd) : ManifestCmd[i] # T_platform
             /\ ~HasPrefixed(ManifestCmd, T_target_eq)

C8_Witness ==
    /\ ManifestLaunched
    /\ Truthy(frame.pip_platform) /\ Len(frame.pip_platform) = 2
    /\ frame.framework_path = <<"f", "w">>

\* C9: without platform, no-binary and only-binary lists the vector is
\* exactly [<python>, -s, -m, pip, install, -r, <manifest>].
C9_BareCommand ==
    (/\ ManifestLaunched
     /\ ~Truthy(frame.pip_platform)
     /\ ~Truthy(frame.no_binary)
     /\ ~Truthy(frame.only_binary)) =>
        ManifestCmd = << FramePython, T_s, T_m, T_pip, T_install, T_r,
                         frame.requirements_file >>

C9_Witness ==
    /\ ManifestLaunched
    /\ frame.pip_platform = <<>> /\ frame.no_binary = None /\ frame.only_binary = None
    /\ frame.entry = "install_requirements"

\* C10: install_requirements called for a missing executable leaves
\* os.environ, CPPFLAGS included, as it was before the call.
C10_MissingLeavesEnvironment ==
    (frame.entry \in {"install_extras", "install_requirements"} /\ PythonMissing) =>
        /\ environ = envAtCall
        /\ environ["CPPFLAGS"] = envAtCall["CPPFLAGS"]

C10_Witness ==
    /\ frame.entry = "install_requirements" /\ PythonMissing
    /\ pc = "returned" /\ Len(stderr) = 1
    /\ environ["CPPFLAGS"] = None

====
